---- MODULE Spec2Model ----
(***************************************************************************)
(* Model of url_base/selenium_base.py: four helper functions around the   *)
(* selenium webdriver API (create_page_driver, search_form, screenshot,   *)
(* find_element).                                                          *)
(*                                                                         *)
(* The helpers are translated statement by statement.  Every call they    *)
(* make into selenium, os.path or logging is an operator on a "world"     *)
(* record w that threads the browser sessions, the file system, the log   *)
(* records and the trace of library calls through the helper's body.      *)
(* A helper returns [w, exc, val]: the world it leaves, the exception it  *)
(* raised (NoExc when it returned normally) and the value it returned.    *)
(* Strings that the code concatenates or joins are sequences of           *)
(* one-character strings; strings it only passes along are TLA+ strings.  *)
(***************************************************************************)
EXTENDS Integers, Sequences, FiniteSets, TLC

VARIABLES
    drv,      \* the browser sessions ever launched, by driver id 1..Len(drv)
    held,     \* ids of the sessions create_page_driver returned to the caller
    files,    \* the file system: the paths of the screenshots written
    last,     \* the latest call: its arguments, outcome, library trace, log
    prev,     \* drv, held and files as they were when the latest call began
    ncalls    \* the number of calls the caller has made

vars == <<drv, held, files, last, prev, ncalls>>

-----------------------------------------------------------------------------
(* Bounds of the model *)

\* The caller makes at most this many calls to the helpers.
MaxCalls == 3

-----------------------------------------------------------------------------
(* The environment: the web, the pages, the file system *)

\* selenium.webdriver.common.keys.Keys.RETURN
RETURN == "RETURN"

\* URLs are tuples.  Old redirects to Home; Down does not answer.
Home == <<"home">>
Old  == <<"old">>
Down == <<"down">>
Blank == <<"about:blank">>
SearchURL(text) == <<"search", text>>

\* The URL a navigation to url ends on.
Land(url) == IF url = Old THEN Home ELSE url

\* The elements of a page, in document order: a search input, a heading and
\* two links.  The blank page a fresh browser shows has none.
NoElement == [h |-> 0, tag |-> "-", cls |-> "-", id |-> "-", name |-> "-",
              link |-> "-", editable |-> FALSE]

Dom(url) ==
    IF url = Blank THEN <<>>
    ELSE << [NoElement EXCEPT !.h = 1, !.tag = "input", !.cls = "q",
                              !.id = "box", !.name = "q", !.editable = TRUE],
            [NoElement EXCEPT !.h = 2, !.tag = "h1", !.cls = "title",
                              !.id = "title"],
            [NoElement EXCEPT !.h = 3, !.tag = "a", !.cls = "title",
                              !.link = "title"],
            [NoElement EXCEPT !.h = 4, !.tag = "a", !.cls = "nav",
                              !.link = "q&a"] >>

\* The text the page's search input holds when the page has just loaded.
Prefill(url) ==
    IF url = Home THEN <<"z">>
    ELSE IF Len(url) = 2 /\ url[1] = "search" THEN url[2]
    ELSE <<>>

\* selenium.webdriver.common.by.By
By_CLASS_NAME        == "class name"
By_ID                == "id"
By_TAG_NAME          == "tag name"
By_NAME              == "name"
By_LINK_TEXT         == "link text"
By_PARTIAL_LINK_TEXT == "partial link text"
By_CSS_SELECTOR      == "css selector"
By_XPATH             == "xpath"

\* Whether text part occurs in the link text.
Contains(link, part) == link = part \/ (link = "q&a" /\ part = "q")

\* Whether element e matches value under strategy by.  A bare word is a tag
\* selector in CSS and a child-element step in XPath.
Matches(e, by, value) ==
    CASE by = By_CLASS_NAME        -> e.cls = value
      [] by = By_ID                -> e.id = value
      [] by = By_TAG_NAME          -> e.tag = value
      [] by = By_NAME              -> e.name = value
      [] by = By_LINK_TEXT         -> e.link = value
      [] by = By_PARTIAL_LINK_TEXT -> Contains(e.link, value)
      [] by = By_CSS_SELECTOR      -> e.tag = value
      [] by = By_XPATH             -> FALSE
      [] OTHER                     -> FALSE

RECURSIVE MatchingHandles(_, _, _)
MatchingHandles(s, by, value) ==
    IF s = <<>> THEN <<>>
    ELSE IF Matches(Head(s), by, value)
         THEN <<Head(s).h>> \o MatchingHandles(Tail(s), by, value)
         ELSE MatchingHandles(Tail(s), by, value)

\* Handles of the elements of the page at url that match, in document order.
Found(url, by, value) == MatchingHandles(Dom(url), by, value)

\* Directories that exist and can be written to.  <<>> is the current one.
Dirs == {<<>>, <<"d">>}

RECURSIVE LastSlash(_)
LastSlash(p) ==
    IF p = <<>> THEN 0
    ELSE IF p[Len(p)] = "/" THEN Len(p)
    ELSE LastSlash(SubSeq(p, 1, Len(p) - 1))

\* The directory part of a path.
DirOf(p) == IF LastSlash(p) = 0 THEN <<>> ELSE SubSeq(p, 1, LastSlash(p) - 1)

\* The element of the page at url with handle h.
ElementAt(url, h) == Dom(url)[h]

-----------------------------------------------------------------------------
(* Values, exceptions and the world *)

Val(kind, v) == [kind |-> kind, v |-> v]
None == Val("None", <<>>)

NoExc == [type |-> "none", at |-> 0, info |-> <<>>]

\* An exception raised by the helper's own code.
OwnExc(type, info) == [type |-> type, at |-> 0, info |-> info]

\* The exception classes of selenium.common.exceptions derive from
\* WebDriverException.
IsWebDriverException(e) ==
    e.type \in {"WebDriverException", "NoSuchElementException",
                "InvalidElementStateException"}

Ret(w, val) == [w |-> w, exc |-> NoExc, val |-> val]
Raise(w, e) == [w |-> w, exc |-> e, val |-> None]

\* The world a helper starts in.  failAt names the library call (by its
\* position in the helper's run) that the environment lets fail: the
\* driver executable is missing, the browser has died.  0: none fails.
World(failAt) ==
    [drv |-> drv, files |-> files, log |-> <<>>, trace |-> <<>>,
     failAt |-> failAt]

\* A library call fn(a, b) on session d (0: on no session), before it ends.
CallRec(fn, d, a, b) ==
    [fn |-> fn, drv |-> d, a |-> a, b |-> b, out |-> "-", ret |-> None]

\* Whether the library call about to be made is the one that fails.
Fails(w) == Len(w.trace) + 1 = w.failAt

\* The library call c returns val, leaving world w.
LibRet(w, c, val) ==
    Ret([w EXCEPT !.trace = Append(@, [c EXCEPT !.out = "ok", !.ret = val])], val)

\* The library call c raises an exception of class type.
LibRaise(w, c, type) ==
    Raise([w EXCEPT !.trace = Append(@, [c EXCEPT !.out = type])],
          [type |-> type, at |-> Len(w.trace) + 1, info |-> <<>>])

-----------------------------------------------------------------------------
(* The library: selenium, os.path, logging *)

\* webdriver.Firefox(**kwargs) and the like: launches a browser, which
\* shows the blank page.
webdriver_new(w, ctor, kwargs) ==
    LET c == CallRec("ctor", 0, ctor, kwargs)
    IN  IF Fails(w)
        THEN LibRaise(w, c, "WebDriverException")
        ELSE LibRet([w EXCEPT !.drv = Append(@, [ctor |-> ctor, kwargs |-> kwargs,
                                                  url |-> Blank, text |-> <<>>])],
                    c, Val("driver", <<Len(w.drv) + 1>>))

\* driver.get(url)
driver_get(w, d, url) ==
    LET c == CallRec("get", d, url, <<>>)
    IN  IF Fails(w) \/ Land(url) = Down
        THEN LibRaise(w, c, "WebDriverException")
        ELSE LibRet([w EXCEPT !.drv[d].url = Land(url),
                              !.drv[d].text = Prefill(Land(url))], c, None)

\* driver.current_url
driver_current_url(w, d) ==
    LET c == CallRec("current_url", d, <<>>, <<>>)
    IN  IF Fails(w)
        THEN LibRaise(w, c, "WebDriverException")
        ELSE LibRet(w, c, Val("url", w.drv[d].url))

\* driver.find_element(by=by, value=value): the first match.
driver_find_element(w, d, by, value) ==
    LET c == CallRec("find_element", d, by, value)
        found == Found(w.drv[d].url, by, value)
    IN  IF Fails(w)
        THEN LibRaise(w, c, "WebDriverException")
        ELSE IF found = <<>>
        THEN LibRaise(w, c, "NoSuchElementException")
        ELSE LibRet(w, c, Val("element", <<found[1]>>))

\* driver.find_elements(by=by, value=value): the list of the matches, empty
\* when there are none.
driver_find_elements(w, d, by, value) ==
    LET c == CallRec("find_elements", d, by, value)
    IN  IF Fails(w)
        THEN LibRaise(w, c, "WebDriverException")
        ELSE LibRet(w, c, Val("list", Found(w.drv[d].url, by, value)))

\* driver.find_element_by_class_name(name)
driver_find_element_by_class_name(w, d, name) ==
    driver_find_element(w, d, By_CLASS_NAME, name)

\* element.clear()
element_clear(w, d, h) ==
    LET c == CallRec("clear", d, h, <<>>)
    IN  IF Fails(w)
        THEN LibRaise(w, c, "WebDriverException")
        ELSE IF ~ElementAt(w.drv[d].url, h).editable
        THEN LibRaise(w, c, "InvalidElementStateException")
        ELSE LibRet([w EXCEPT !.drv[d].text = <<>>], c, None)

\* The session after the keys are typed into its page's input: a character
\* is appended to the input's text, RETURN submits the form, which loads
\* the search page for the text; keys after that go nowhere.
RECURSIVE Type(_, _)
Type(s, keys) ==
    IF keys = <<>> THEN s
    ELSE IF Head(keys) = RETURN
    THEN [s EXCEPT !.url = SearchURL(s.text), !.text = Prefill(SearchURL(s.text))]
    ELSE Type([s EXCEPT !.text = Append(@, Head(keys))], Tail(keys))

\* element.send_keys(keys)
element_send_keys(w, d, h, keys) ==
    LET c == CallRec("send_keys", d, h, keys)
    IN  IF Fails(w)
        THEN LibRaise(w, c, "WebDriverException")
        ELSE IF ~ElementAt(w.drv[d].url, h).editable
        THEN LibRaise(w, c, "InvalidElementStateException")
        ELSE LibRet([w EXCEPT !.drv[d] = Type(@, keys)], c, None)

\* driver.get_screenshot_as_file(filename): renders the page, then writes
\* the image; it answers False when the write fails, True otherwise.
driver_get_screenshot_as_file(w, d, filename) ==
    LET c == CallRec("get_screenshot_as_file", d, filename, <<>>)
    IN  IF Fails(w)
        THEN LibRaise(w, c, "WebDriverException")
        ELSE IF DirOf(filename) \notin Dirs
        THEN LibRet(w, c, Val("bool", <<FALSE>>))
        ELSE LibRet([w EXCEPT !.files = @ \cup {filename}], c, Val("bool", <<TRUE>>))

\* os.path.join(path, filename)
os_path_join(path, filename) ==
    IF filename # <<>> /\ filename[1] = "/" THEN filename
    ELSE IF path = <<>> \/ path[Len(path)] = "/" THEN path \o filename
    ELSE path \o <<"/">> \o filename

\* logging.error(msg)
logging_error(w, fmt, args) ==
    [w EXCEPT !.log = Append(@, [level |-> "error", fmt |-> fmt, args |-> args])]

-----------------------------------------------------------------------------
(* url_base/selenium_base.py *)

browser_map ==
    [chrome |-> "Chrome", safari |-> "Safari", firefox |-> "Firefox",
     ie |-> "Ie", edge |-> "Edge"]

\* A variant of driver_map that falls back on Firefox:
\* browser_map.get(browser, webdriver.Firefox).
driver_map_default(browser) ==
    IF browser \in DOMAIN browser_map
    THEN [exc |-> NoExc, val |-> browser_map[browser]]
    ELSE [exc |-> NoExc, val |-> "Firefox"]

\* browser_map[browser]: the constructor, or KeyError.
driver_map(browser) ==
    IF browser \in DOMAIN browser_map
    THEN [exc |-> NoExc, val |-> browser_map[browser]]
    ELSE [exc |-> OwnExc("KeyError", <<browser>>), val |-> "-"]

DriverNotFoundMsg ==
    "Driver not found, download one in https://selenium-python.readthedocs.io/installation.html#drivers"

\* A variant of create_page_driver whose except clause does not re-raise.
create_page_driver_swallow(w, url, browser, kwargs) ==
    LET m == driver_map(browser)
        t == IF m.exc # NoExc THEN Raise(w, m.exc)
             ELSE webdriver_new(w, m.val, kwargs)
    IN  IF t.exc # NoExc
        THEN IF IsWebDriverException(t.exc)
             THEN Ret(logging_error(t.w, DriverNotFoundMsg, <<>>), None)
             ELSE Raise(t.w, t.exc)
        ELSE LET g == driver_get(t.w, t.val.v[1], url)
             IN  IF g.exc # NoExc THEN Raise(g.w, g.exc)
                 ELSE Ret(g.w, t.val)

\* A variant of create_page_driver that drops the keyword options.
create_page_driver_no_kwargs(w, url, browser, kwargs) ==
    LET m == driver_map(browser)
        t == IF m.exc # NoExc THEN Raise(w, m.exc)
             ELSE webdriver_new(w, m.val, {})
    IN  IF t.exc # NoExc
        THEN IF IsWebDriverException(t.exc)
             THEN Raise(logging_error(t.w, DriverNotFoundMsg, <<>>), t.exc)
             ELSE Raise(t.w, t.exc)
        ELSE LET g == driver_get(t.w, t.val.v[1], url)
             IN  IF g.exc # NoExc THEN Raise(g.w, g.exc)
                 ELSE Ret(g.w, t.val)

create_page_driver(w, url, browser, kwargs) ==
    LET m == driver_map(browser)
        \* try: driver = _driver_map(browser)(**kwargs)
        t == IF m.exc # NoExc THEN Raise(w, m.exc)
             ELSE webdriver_new(w, m.val, kwargs)
    IN  IF t.exc # NoExc
        THEN \* except WebDriverException: logging.error(...); raise
             IF IsWebDriverException(t.exc)
             THEN Raise(logging_error(t.w, DriverNotFoundMsg, <<>>), t.exc)
             ELSE Raise(t.w, t.exc)
        ELSE LET g == driver_get(t.w, t.val.v[1], url)
             IN  IF g.exc # NoExc THEN Raise(g.w, g.exc)
                 ELSE Ret(g.w, t.val)

\* A variant of search_form that does not clear the input.
search_form_no_clear(w, driver, html_class_form, search_term) ==
    LET e == driver_find_element_by_class_name(w, driver, html_class_form)
    IN  IF e.exc # NoExc THEN Raise(e.w, e.exc) ELSE
        LET k == element_send_keys(e.w, driver, e.val.v[1],
                                   search_term \o <<RETURN>>)
        IN  IF k.exc # NoExc THEN Raise(k.w, k.exc) ELSE
            LET u == driver_current_url(k.w, driver)
            IN  IF u.exc # NoExc THEN Raise(u.w, u.exc) ELSE
                LET g == driver_get(u.w, driver, u.val.v)
                IN  IF g.exc # NoExc THEN Raise(g.w, g.exc)
                    ELSE Ret(g.w, None)

search_form(w, driver, html_class_form, search_term) ==
    LET e == driver_find_element_by_class_name(w, driver, html_class_form)
    IN  IF e.exc # NoExc THEN Raise(e.w, e.exc) ELSE
        LET c == element_clear(e.w, driver, e.val.v[1])
        IN  IF c.exc # NoExc THEN Raise(c.w, c.exc) ELSE
            LET k == element_send_keys(c.w, driver, e.val.v[1],
                                       search_term \o <<RETURN>>)
            IN  IF k.exc # NoExc THEN Raise(k.w, k.exc) ELSE
                LET u == driver_current_url(k.w, driver)
                IN  IF u.exc # NoExc THEN Raise(u.w, u.exc) ELSE
                    LET g == driver_get(u.w, driver, u.val.v)
                    IN  IF g.exc # NoExc THEN Raise(g.w, g.exc)
                        ELSE Ret(g.w, None)

screenshot(w, driver, path, filename) ==
    LET s == driver_get_screenshot_as_file(w, driver, os_path_join(path, filename))
    IN  IF s.exc # NoExc THEN Raise(s.w, s.exc)
        ELSE Ret(s.w, None)

\* The dictionary in the order it is written: list(selector_dict.keys()) is
\* the keys in that order.
selector_dict ==
    << <<"class", By_CLASS_NAME>>, <<"id", By_ID>>, <<"tag", By_TAG_NAME>>,
       <<"name", By_NAME>>, <<"link_text", By_LINK_TEXT>>,
       <<"partial_link_text", By_PARTIAL_LINK_TEXT>>,
       <<"css", By_CSS_SELECTOR>>, <<"xpath", By_XPATH>> >>

DictKeys(dict) == [i \in 1..Len(dict) |-> dict[i][1]]
DictHas(dict, key) == \E i \in 1..Len(dict) : dict[i][1] = key
DictGet(dict, key) == dict[CHOOSE i \in 1..Len(dict) : dict[i][1] = key][2]

\* A variant of find_element that looks an unknown selector type up by
\* class name: selector_dict.get(selector_type, By.CLASS_NAME).
find_element_unchecked(w, driver, value, selector_type, multiple) ==
    LET by_func == IF DictHas(selector_dict, selector_type)
                   THEN DictGet(selector_dict, selector_type)
                   ELSE By_CLASS_NAME
        t == IF multiple
             THEN driver_find_elements(w, driver, by_func, value)
             ELSE driver_find_element(w, driver, by_func, value)
    IN  IF t.exc.type = "NoSuchElementException"
        THEN Raise(logging_error(t.w, "Element {} not found", <<value>>), t.exc)
        ELSE IF t.exc # NoExc THEN Raise(t.w, t.exc)
        ELSE Ret(t.w, t.val)

\* A variant of find_element that ignores multiple.
find_element_single(w, driver, value, selector_type, multiple) ==
    IF ~DictHas(selector_dict, selector_type)
    THEN Raise(w, OwnExc("ValueError",
                         <<"Selector type '{}' not in {}", selector_type,
                           DictKeys(selector_dict)>>))
    ELSE LET by_func == DictGet(selector_dict, selector_type)
             t == driver_find_element(w, driver, by_func, value)
         IN  IF t.exc.type = "NoSuchElementException"
             THEN Raise(logging_error(t.w, "Element {} not found", <<value>>), t.exc)
             ELSE IF t.exc # NoExc THEN Raise(t.w, t.exc)
             ELSE Ret(t.w, t.val)

\* A variant of find_element that reloads the page before it looks.
find_element_reload(w, driver, value, selector_type, multiple) ==
    IF ~DictHas(selector_dict, selector_type)
    THEN Raise(w, OwnExc("ValueError",
                         <<"Selector type '{}' not in {}", selector_type,
                           DictKeys(selector_dict)>>))
    ELSE LET by_func == DictGet(selector_dict, selector_type)
             g == driver_get(w, driver, w.drv[driver].url)
             t == IF multiple
                  THEN driver_find_elements(g.w, driver, by_func, value)
                  ELSE driver_find_element(g.w, driver, by_func, value)
         IN  IF g.exc # NoExc THEN Raise(g.w, g.exc)
             ELSE IF t.exc.type = "NoSuchElementException"
             THEN Raise(logging_error(t.w, "Element {} not found", <<value>>), t.exc)
             ELSE IF t.exc # NoExc THEN Raise(t.w, t.exc)
             ELSE Ret(t.w, t.val)

find_element(w, driver, value, selector_type, multiple) ==
    IF ~DictHas(selector_dict, selector_type)
    THEN Raise(w, OwnExc("ValueError",
                         <<"Selector type '{}' not in {}", selector_type,
                           DictKeys(selector_dict)>>))
    ELSE LET by_func == DictGet(selector_dict, selector_type)
             t == IF multiple
                  THEN driver_find_elements(w, driver, by_func, value)
                  ELSE driver_find_element(w, driver, by_func, value)
         IN  IF t.exc.type = "NoSuchElementException"
             THEN Raise(logging_error(t.w, "Element {} not found", <<value>>), t.exc)
             ELSE IF t.exc # NoExc THEN Raise(t.w, t.exc)
             ELSE Ret(t.w, t.val)

-----------------------------------------------------------------------------
(* The caller: the inputs it draws and the calls it makes *)

URLs == {Home, Old, Down}
Browsers == {"firefox", "chrome", "opera"}
KwargsSets == {{}, {<<"timeout", 30>>}}
ClassNames == {"q", "missing"}
Terms == {<<>>, <<"a">>, <<"a", "b">>}
Paths == {<<>>, <<"d">>, <<"d", "/">>, <<"x">>}
Filenames == {<<"p">>, <<"/", "t", "/", "p">>}
Values == {"title", "q"}
SelectorTypes == {selector_dict[i][1] : i \in 1..Len(selector_dict)} \cup {"text"}

Init ==
    /\ drv = <<>>
    /\ held = {}
    /\ files = {}
    /\ last = [op |-> "none", args |-> <<>>, exc |-> NoExc, val |-> None,
               trace |-> <<>>, log |-> <<>>]
    /\ prev = [drv |-> <<>>, held |-> {}, files |-> {}]
    /\ ncalls = 0

\* The state after a helper called as op(args) ended as r.
After(op, args, r) ==
    /\ ncalls' = ncalls + 1
    /\ drv' = r.w.drv
    /\ files' = r.w.files
    /\ held' = IF r.exc = NoExc /\ r.val.kind = "driver"
               THEN held \cup {r.val.v[1]} ELSE held
    /\ last' = [op |-> op, args |-> args, exc |-> r.exc, val |-> r.val,
                trace |-> r.w.trace, log |-> r.w.log]
    /\ prev' = [drv |-> drv, held |-> held, files |-> files]

CallCreatePageDriver ==
    /\ ncalls < MaxCalls
    /\ \E url \in URLs, browser \in Browsers, kwargs \in KwargsSets, failAt \in 0..2 :
        After("create_page_driver", <<url, browser, kwargs>>,
              create_page_driver(World(failAt), url, browser, kwargs))

CallSearchForm ==
    /\ ncalls < MaxCalls
    /\ \E driver \in held, cls \in ClassNames, term \in Terms, failAt \in 0..5 :
        After("search_form", <<driver, cls, term>>,
              search_form(World(failAt), driver, cls, term))

CallScreenshot ==
    /\ ncalls < MaxCalls
    /\ \E driver \in held, path \in Paths, filename \in Filenames, failAt \in 0..1 :
        After("screenshot", <<driver, path, filename>>,
              screenshot(World(failAt), driver, path, filename))

CallFindElement ==
    /\ ncalls < MaxCalls
    /\ \E driver \in held, value \in Values, selector_type \in SelectorTypes,
       multiple \in BOOLEAN, failAt \in 0..1 :
        After("find_element", <<driver, value, selector_type, multiple>>,
              find_element(World(failAt), driver, value, selector_type, multiple))

Next ==
    \/ CallCreatePageDriver
    \/ CallSearchForm
    \/ CallScreenshot
    \/ CallFindElement

Spec == Init /\ [][Next]_vars

-----------------------------------------------------------------------------
(* Vocabulary of the properties *)

ValidKinds ==
    {"class", "id", "tag", "name", "link_text", "partial_link_text", "css", "xpath"}

ValidBrowsers == {"chrome", "safari", "firefox", "ie", "edge"}

\* The lookup strategy each selector kind stands for.
StrategyOf(kind) ==
    CASE kind = "class"             -> "class name"
      [] kind = "id"                -> "id"
      [] kind = "tag"               -> "tag name"
      [] kind = "name"              -> "name"
      [] kind = "link_text"         -> "link text"
      [] kind = "partial_link_text" -> "partial link text"
      [] kind = "css"               -> "css selector"
      [] kind = "xpath"             -> "xpath"

\* The constructor registered for each browser name.
RegisteredCtor(browser) ==
    CASE browser = "chrome"  -> "Chrome"
      [] browser = "safari"  -> "Safari"
      [] browser = "firefox" -> "Firefox"
      [] browser = "ie"      -> "Ie"
      [] browser = "edge"    -> "Edge"

\* The latest call was op(...).
Was(op) == last.op = op

\* The lookups among the library calls of the latest call.
Lookups ==
    {i \in 1..Len(last.trace) : last.trace[i].fn \in {"find_element", "find_elements"}}

\* The navigations among the library calls of the latest call.
Navigations == {i \in 1..Len(last.trace) : last.trace[i].fn = "get"}

\* The constructor calls among the library calls of the latest call.
Constructions == {i \in 1..Len(last.trace) : last.trace[i].fn = "ctor"}

\* The latest call left the sessions, their owner and the files as they were.
NoEffect == drv = prev.drv /\ held = prev.held /\ files = prev.files

-----------------------------------------------------------------------------
(* C1 *)

\* C1: for every selector_type outside the eight valid kinds, and for either
\* value of multiple, find_element fails with an error whose message holds
\* the offending selector_type and lists all eight valid kinds, and the call
\* issues no lookup against the session.
C1_UnknownSelectorRejected ==
    (Was("find_element") /\ last.args[3] \notin ValidKinds) =>
        /\ last.exc.type = "ValueError"
        /\ Len(last.exc.info) = 3
        /\ last.exc.info[2] = last.args[3]
        /\ \A kind \in ValidKinds :
               \E i \in 1..Len(last.exc.info[3]) : last.exc.info[3][i] = kind
        /\ Lookups = {}
        /\ last.trace = <<>>

C1_Witness ==
    /\ Was("find_element")
    /\ last.args[3] = "text"
    /\ last.args[4] = TRUE
    /\ last.exc.type = "ValueError"

-----------------------------------------------------------------------------
(* C2 *)

\* C2: for every browser outside {chrome, safari, firefox, ie, edge},
\* create_page_driver fails with a lookup error before any constructor is
\* called and before any navigation; no session is launched or returned.
C2_UnknownBrowserRejected ==
    (Was("create_page_driver") /\ last.args[2] \notin ValidBrowsers) =>
        /\ last.exc.type = "KeyError"
        /\ last.exc.info = <<last.args[2]>>
        /\ Constructions = {}
        /\ Navigations = {}
        /\ last.val = None
        /\ NoEffect

C2_Witness ==
    /\ Was("create_page_driver")
    /\ last.args[2] = "opera"
    /\ last.exc.type = "KeyError"

-----------------------------------------------------------------------------
(* C3 *)

\* The session answered the lookup of the latest find_element call, and no
\* element of the page it was on matched.
NothingMatched ==
    /\ Was("find_element")
    /\ last.args[3] \in ValidKinds
    /\ Len(last.trace) = 1
    /\ last.trace[1].out # "WebDriverException"
    /\ Found(prev.drv[last.args[1]].url, StrategyOf(last.args[3]), last.args[2]) = <<>>

\* C3: for every recognized selector kind and for both values of multiple,
\* when no element of the current page matches the value, find_element fails
\* with a not-found error and a log entry naming the searched value is
\* emitted before the error reaches the caller.
C3_NoMatchFails ==
    NothingMatched =>
        /\ last.exc.type = "NoSuchElementException"
        /\ last.log = << [level |-> "error", fmt |-> "Element {} not found",
                          args |-> <<last.args[2]>>] >>

\* The part of C3 about multiple=false.
C3_NoSingleMatchFails ==
    (NothingMatched /\ ~last.args[4]) =>
        /\ last.exc.type = "NoSuchElementException"
        /\ last.log = << [level |-> "error", fmt |-> "Element {} not found",
                          args |-> <<last.args[2]>>] >>

-----------------------------------------------------------------------------
(* C4 *)

\* The constructor was called in the latest call and raised a
\* driver-initialization error.
ConstructorFailed ==
    /\ Was("create_page_driver")
    /\ Len(last.trace) >= 1
    /\ last.trace[1].fn = "ctor"
    /\ last.trace[1].out = "WebDriverException"

\* C4: when the constructor raises a driver-initialization error,
\* create_page_driver emits exactly one log entry, the one that points to the
\* driver-installation documentation, and re-raises that same error; it
\* attempts no navigation and returns no session.
C4_DriverInitFailureLoggedAndRaised ==
    ConstructorFailed =>
        /\ last.log = << [level |-> "error", fmt |-> DriverNotFoundMsg,
                          args |-> <<>>] >>
        /\ last.exc.type = "WebDriverException"
        /\ last.exc.at = 1
        /\ Navigations = {}
        /\ last.val = None
        /\ NoEffect

C4_Witness ==
    /\ ConstructorFailed
    /\ last.args[2] = "firefox"
    /\ Len(last.log) = 1

-----------------------------------------------------------------------------
(* C5 *)

\* C5: every operation is all-or-nothing: whenever a helper fails, at any
\* step, it leaves no effect behind: no launched browser that is not
\* returned, no cleared or partly typed input, no changed URL, no file.
C5_AllOrNothing ==
    (last.op # "none" /\ last.exc.type # "none") => NoEffect

-----------------------------------------------------------------------------
(* C6 *)

-----------------------------------------------------------------------------
(* C7 *)

\* The library functions search_form calls, in the order it calls them.
SearchSteps == <<"find_element", "clear", "send_keys", "current_url", "get">>

\* C7: search_form looks the input up by class name, clears it, sends the
\* term followed by the submit key, then reloads the session at the URL the
\* submit resulted in, in that order.  If no element has the class name, the
\* lookup error reaches the caller and none of clear, typing or navigation
\* happens: the session is as it was.
C7_SearchFormOrder ==
    Was("search_form") =>
        LET t == last.trace
            n == Len(last.trace)
            d == last.args[1]
        IN  /\ n \in 1..5
            /\ \A i \in 1..n : t[i].fn = SearchSteps[i] /\ t[i].drv = d
            /\ \A i \in 1..(n - 1) : t[i].out = "ok"
            /\ t[1].a = "class name" /\ t[1].b = last.args[2]
            /\ n >= 2 => t[2].a = t[1].ret.v[1]
            /\ n >= 3 => t[3].a = t[1].ret.v[1] /\ t[3].b = last.args[3] \o <<"RETURN">>
            /\ n >= 4 /\ t[4].out = "ok" => t[4].ret.v = SearchURL(last.args[3])
            /\ n >= 5 => t[5].a = SearchURL(last.args[3])
            /\ last.exc.type = "none" <=> (n = 5 /\ t[5].out = "ok")
            /\ last.exc.type = "none" => drv[d].url = SearchURL(last.args[3])
            /\ last.exc.type # "none" => last.exc.type = t[n].out /\ last.exc.at = n
            /\ t[1].out = "NoSuchElementException" =>
                   /\ n = 1
                   /\ last.exc.type = "NoSuchElementException"
                   /\ NoEffect

C7_Witness ==
    /\ Was("search_form")
    /\ last.exc.type = "none"
    /\ last.args[3] = <<"a", "b">>
    /\ prev.drv[last.args[1]].text = <<"z">>
    /\ drv[last.args[1]].url = SearchURL(<<"a", "b">>)

\* The failing case of C7 happens too.
C7_WitnessNoElement ==
    /\ Was("search_form")
    /\ last.args[2] = "missing"
    /\ last.exc.type = "NoSuchElementException"

-----------------------------------------------------------------------------
(* C8 *)

\* The one library call of the latest screenshot call could not render the
\* page or could not write the file.
ScreenshotFailed ==
    \/ last.trace[1].out # "ok"
    \/ last.trace[1].ret.kind = "bool" /\ last.trace[1].ret.v = <<FALSE>>

\* C8: screenshot(driver, path, filename) makes exactly one attempt to write
\* the page's image to os.path.join(path, filename); if the write or the
\* rendering fails, the failure reaches the caller as an error, and the
\* write is not retried.
C8_ScreenshotFailurePropagates ==
    Was("screenshot") =>
        /\ Len(last.trace) = 1
        /\ last.trace[1].fn = "get_screenshot_as_file"
        /\ last.trace[1].drv = last.args[1]
        /\ last.trace[1].a = os_path_join(last.args[2], last.args[3])
        /\ ScreenshotFailed => last.exc.type # "none"

\* The part of C8 that is about the attempt and about rendering failures.
C8_OneAttemptRenderFailurePropagates ==
    Was("screenshot") =>
        /\ Len(last.trace) = 1
        /\ last.trace[1].fn = "get_screenshot_as_file"
        /\ last.trace[1].drv = last.args[1]
        /\ last.trace[1].a = os_path_join(last.args[2], last.args[3])
        /\ last.trace[1].out # "ok" =>
               last.exc.type = last.trace[1].out /\ last.exc.at = 1

-----------------------------------------------------------------------------
(* C9 *)

\* C9: on a successful lookup with a recognized selector kind, find_element
\* issues exactly one query, with the strategy mapped to the kind (the eight
\* kinds map to eight distinct strategies) and the given value: with
\* multiple=false the single-element lookup, whose one handle it returns;
\* with multiple=true the multi-element lookup, whose sequence of all
\* matches it returns in the order the session reports them.
C9_LookupSuccess ==
    /\ Cardinality({DictGet(selector_dict, kind) : kind \in ValidKinds}) = 8
    /\ (Was("find_element") /\ last.exc.type = "none") =>
        LET d == last.args[1]
            c == last.trace[1]
            matches == Found(prev.drv[d].url, StrategyOf(last.args[3]), last.args[2])
        IN  /\ last.args[3] \in ValidKinds
            /\ Len(last.trace) = 1
            /\ c.drv = d
            /\ c.a = StrategyOf(last.args[3])
            /\ c.b = last.args[2]
            /\ c.fn = IF last.args[4] THEN "find_elements" ELSE "find_element"
            /\ last.val = c.ret
            /\ ~last.args[4] =>
                   /\ last.val.kind = "element"
                   /\ matches # <<>>
                   /\ last.val.v = <<matches[1]>>
            /\ last.args[4] =>
                   /\ last.val.kind = "list"
                   /\ last.val.v = matches

C9_Witness ==
    /\ Was("find_element")
    /\ last.exc.type = "none"
    /\ last.args[2] = "title"
    /\ last.args[3] = "class"
    /\ last.args[4] = TRUE
    /\ last.val.v = <<2, 3>>

\* The single-element case of C9 happens too.
C9_WitnessSingle ==
    /\ Was("find_element")
    /\ last.exc.type = "none"
    /\ last.args[3] = "partial_link_text"
    /\ last.args[4] = FALSE
    /\ last.val.v = <<4>>

-----------------------------------------------------------------------------
(* C10 *)

\* C10: find_element and screenshot never change the session: after either,
\* successful or failed, every session shows the URL and page it showed
\* before, so only create_page_driver and search_form navigate; the one
\* effect of screenshot is the file written.
C10_LocatorAndScreenshotFrame ==
    /\ (Was("find_element") \/ Was("screenshot")) =>
           /\ drv = prev.drv
           /\ held = prev.held
           /\ Navigations = {}
    /\ Was("find_element") => files = prev.files
    /\ Was("screenshot") =>
           /\ prev.files \subseteq files
           /\ files \subseteq prev.files \cup {os_path_join(last.args[2], last.args[3])}
    /\ (drv # prev.drv \/ Navigations # {}) =>
           (Was("create_page_driver") \/ Was("search_form"))

C10_Witness ==
    /\ Was("screenshot")
    /\ last.exc.type = "none"
    /\ files # prev.files
    /\ prev.drv[last.args[1]].url = SearchURL(<<"a">>)
    /\ drv = prev.drv

\* The find_element case of C10 happens too.
C10_WitnessFind ==
    /\ Was("find_element")
    /\ last.exc.type = "NoSuchElementException"
    /\ prev.drv[last.args[1]].url = SearchURL(<<"a">>)

====
